---- MODULE Spec2Model ----
(***************************************************************************)
(* A model of ijroi/ijroi.py: the ImageJ ROI record decoder (read_roi),    *)
(* the encoder (write_roi) and the zip archive wrappers (read_roi_zip,     *)
(* write_roi_zip).                                                         *)
(*                                                                         *)
(* Conventions.                                                            *)
(*  - A byte stream is a sequence of naturals 0..255; stream positions are *)
(*    0-based as in the code, so byte p of the stream is data[p+1].        *)
(*  - NumPy arithmetic is the NumPy 1.x arithmetic the code was written    *)
(*    for: a value stored into an int16 array is reduced modulo 2^16 into  *)
(*    -32768..32767 (ToInt16).                                             *)
(*  - A float32 is represented by its bit pattern <<"f32", bits>>: getfloat*)
(*    reinterprets the 32 bits it read, and nothing else is done to a      *)
(*    float except the additions of the sub-pixel rectangle, which are     *)
(*    kept as <<"f32add", a, b>>.                                          *)
(*  - Every modelled 32-bit quantity is below 2^31.                        *)
(***************************************************************************)
EXTENDS Integers, Sequences, FiniteSets, TLC

VARIABLES
    din,      \* decoder run: the bytes handed to read_roi
    dgen,     \* decoder run: the field values the bytes were laid out from
    dres,     \* decoder run: what read_roi returned or raised ("none" before)
    winp,     \* round trip: the arguments of write_roi
    wres,     \* round trip: outcome of write_roi ("none" before)
    rres,     \* round trip: outcome of read_roi on the written bytes
    zinp,     \* archive: the arguments of write_roi_zip
    zpc,      \* archive: position of write_roi_zip / read_roi_zip
    zk,       \* archive: index of the pair being processed
    zf,       \* archive: the per-entry BytesIO buffer f
    archive,  \* archive: the entries of the zip file, in listing order
    zerr,     \* archive: the error that left write_roi_zip ("" if none)
    zout,     \* archive: the list read_roi_zip returned
    calls,    \* interleaving: the write_roi calls in progress
    counters, \* interleaving: write_bytes.bytes_so_far of each function object
    arrays    \* interleaving: the callers' points arrays

vars == <<din, dgen, dres, winp, wres, rres, zinp, zpc, zk, zf, archive,
          zerr, zout, calls, counters, arrays>>

decVars == <<din, dgen, dres>>
rtVars == <<winp, wres, rres>>
zipVars == <<zinp, zpc, zk, zf, archive, zerr, zout>>
concVars == <<calls, counters, arrays>>

(***************************************************************************)
(* Module constants of ijroi.py                                            *)
(***************************************************************************)
MAGIC == <<73, 111, 117, 116>>          \* b'Iout'
SUB_PIXEL_RESOLUTION == 128
NAME_OFFSET == 16
NAME_LENGTH == 20
COUNTERS_OFFSET == 48

POLYGON == 0
RECT == 1
OVAL == 2
LINE == 3
FREELINE == 4
POLYLINE == 5
NOROI == 6
FREEHAND == 7
TRACED == 8
ANGLE == 9
POINT == 10

(***************************************************************************)
(* Bounds of the model                                                     *)
(***************************************************************************)
MaxN == 2        \* coordinates of a raw record handed to the decoder
MaxBox == 3      \* width and height of the enumerated small boxes
MaxPts == 2      \* points of a polygon handed to the encoder
MaxNameLen == 2  \* characters of a name handed to the encoder
MaxEntries == 2  \* (name, points) pairs handed to write_roi_zip

(***************************************************************************)
(* Integer helpers                                                         *)
(***************************************************************************)
Min2(a, b) == IF a < b THEN a ELSE b
Max2(a, b) == IF a > b THEN a ELSE b

\* numpy int16 storage (NumPy 1.x C cast): reduce modulo 2^16
ToInt16(v) ==
    LET m == v % 65536 IN IF m >= 32768 THEN m - 65536 ELSE m

\* (options & mask) != 0 for a one-bit mask
BitSet(options, mask) == (options \div mask) % 2 = 1

Zeros(n) == [i \in 1..n |-> 0]

(***************************************************************************)
(* read_roi: the stream readers                                            *)
(***************************************************************************)
get8(data, pos) == data[pos + 1]

get16(data, pos) == get8(data, pos) * 256 + get8(data, pos + 1)

get32(data, pos) == get16(data, pos) * 65536 + get16(data, pos + 2)

getfloat(data, pos) == <<"f32", get32(data, pos)>>

(***************************************************************************)
(* read_roi: the checks and the three shape families                       *)
(***************************************************************************)
subPixelResolutionNoGate(options, version) ==
    BitSet(options, SUB_PIXEL_RESOLUTION)

subPixelResolution(options, version) ==
    BitSet(options, SUB_PIXEL_RESOLUTION) /\ version >= 222

ReadSupportedWithLine ==
    {FREEHAND, TRACED, POLYGON, RECT, POINT, OVAL, LINE}

ReadSupported == {FREEHAND, TRACED, POLYGON, RECT, POINT, OVAL}

\* the ellipse test of the pixel centre (corner_x + 0.5, corner_y + 0.5):
\* with a = 2(x - center_x), b = 2(y - center_y), w = 2rx, h = 2ry the test
\* a^2/w^2 + b^2/h^2 <= 1 is a^2 h^2 + b^2 w^2 <= w^2 h^2 (w, h nonzero)
OvalInside(corner_x, corner_y, top, left, bottom, right) ==
    LET w == right - left
        h == bottom - top
        a == 2 * corner_x + 1 - left - right
        b == 2 * corner_y + 1 - top - bottom
    IN a * a * h * h + b * b * w * w <= w * w * h * h

\* the nested loops: corner_x outer, corner_y inner; [corner_y, corner_x] kept
OvalPoints(top, left, bottom, right) ==
    LET nx == right + 1 - left
        ny == bottom + 1 - top
        corner(k) == <<top + ((k - 1) % ny), left + ((k - 1) \div ny)>>
        all == [k \in 1..(nx * ny) |-> corner(k)]
        inside(p) == OvalInside(p[2], p[1], top, left, bottom, right)
    IN IF nx <= 0 \/ ny <= 0 THEN <<>> ELSE SelectSeq(all, inside)

\* np.array(points, dtype=np.int16)
AsInt16(points) ==
    [i \in 1..Len(points) |-> <<ToInt16(points[i][1]), ToInt16(points[i][2])>>]

RectPointsSwapped(top, left, bottom, right) ==
    <<<<top, left>>, <<bottom, left>>, <<bottom, right>>, <<top, right>>>>

RectPoints(top, left, bottom, right) ==
    <<<<top, left>>, <<top, right>>, <<bottom, right>>, <<bottom, left>>>>

RectPointsFloat(x1, y1, x2, y2) ==
    <<<<y1, x1>>, <<y1, <<"f32add", x1, x2>>>>,
      <<<<"f32add", y1, y2>>, <<"f32add", x1, x2>>>>,
      <<<<"f32add", y1, y2>>, x1>>>>

Outcome(status, dtype, points, name, pos, nseek, ncoord) ==
    [status |-> status, dtype |-> dtype, points |-> points, name |-> name,
     pos |-> pos, nseek |-> nseek, ncoord |-> ncoord]

Raised(status, pos, nseek, ncoord) ==
    Outcome(status, "none", <<>>, <<>>, pos, nseek, ncoord)

\* the outcome variable of a call that has not run yet
Pending == Raised("pending", 0, 0, 0)

\* the same for write_roi and for read_roi_zip
NotWritten == [status |-> "pending", out |-> <<>>, bytes_so_far |-> 0,
               header2offset |-> 0]

NotRead == [status |-> "pending", items |-> <<>>]

\* lines 204-271: the coordinate payload, the name, the offsets
read_coords(data, n_coordinates, top, left, header2offset, sub) ==
    LET csz == IF sub THEN 4 ELSE 2
        start == 64 + (IF sub THEN 4 * n_coordinates ELSE 0)
        skips == IF sub THEN 1 ELSE 0
        ystart == start + csz * n_coordinates
        endc == ystart + csz * n_coordinates
        getc(p) == IF sub THEN getfloat(data, p) ELSE ToInt16(get16(data, p))
        xs == [i \in 1..n_coordinates |-> getc(start + csz * (i - 1))]
        ys == [i \in 1..n_coordinates |-> getc(ystart + csz * (i - 1))]
        p1 == header2offset + NAME_OFFSET
        p2 == header2offset + NAME_LENGTH
        name_offset == get32(data, p1)
        name_length == get32(data, p2)
        name == [i \in 1..name_length |-> get16(data, name_offset + 2 * (i - 1))]
        points == [i \in 1..n_coordinates |->
                     IF sub THEN <<ys[i], xs[i]>>
                     ELSE <<ToInt16(ys[i] + top), ToInt16(xs[i] + left)>>]
    IN IF Len(data) < endc
       THEN Raised("IOError", Max2(start, Len(data)), skips,
                   IF Len(data) > start THEN (Len(data) - start) \div csz ELSE 0)
       ELSE IF Len(data) < p1 + 4
       THEN Raised("IOError", Max2(p1, Len(data)), skips + 1, 2 * n_coordinates)
       ELSE IF Len(data) < p2 + 4
       THEN Raised("IOError", Max2(p2, Len(data)), skips + 2, 2 * n_coordinates)
       ELSE IF Len(data) < name_offset + 2 * name_length
       THEN Raised("IOError", Max2(name_offset, Len(data)), skips + 3,
                   2 * n_coordinates)
       ELSE Outcome("ok", IF sub THEN "float32" ELSE "int16", points, name,
                    name_offset + 2 * name_length, skips + 3, 2 * n_coordinates)

read_roi(data) ==
    IF Len(data) < 4 \/ SubSeq(data, 1, 4) # MAGIC
    THEN Raised("ValueError", Min2(4, Len(data)), 0, 0)
    ELSE IF Len(data) < 64
    THEN Raised("IOError", Len(data), 0, 0)
    ELSE
    LET version == get16(data, 4)
        roi_type == get8(data, 6)
        top == get16(data, 8)
        left == get16(data, 10)
        bottom == get16(data, 12)
        right == get16(data, 14)
        n_coordinates == get16(data, 16)
        x1 == getfloat(data, 18)
        y1 == getfloat(data, 22)
        x2 == getfloat(data, 26)
        y2 == getfloat(data, 30)
        subtype == get16(data, 48)
        options == get16(data, 50)
        header2offset == get32(data, 60)
        sub == subPixelResolution(options, version)
    IN IF roi_type \notin ReadSupported
       THEN Raised("NotImplementedError:type", 64, 0, 0)
       ELSE IF subtype # 0
       THEN Raised("NotImplementedError:subtype", 64, 0, 0)
       ELSE IF roi_type = OVAL
       THEN IF sub
            THEN Raised("NotImplementedError:subpixel-oval", 64, 0, 0)
            ELSE IF left <= right /\ top <= bottom
                    /\ (left = right \/ top = bottom)
            THEN Raised("ZeroDivisionError", 64, 0, 0)
            ELSE Outcome("ok", "int16",
                         AsInt16(OvalPoints(top, left, bottom, right)),
                         <<>>, 64, 0, 0)
       ELSE IF roi_type = RECT
       THEN IF sub
            THEN Outcome("ok", "float32", RectPointsFloat(x1, y1, x2, y2),
                         <<>>, 64, 0, 0)
            ELSE Outcome("ok", "int16",
                         AsInt16(RectPoints(top, left, bottom, right)),
                         <<>>, 64, 0, 0)
       ELSE read_coords(data, n_coordinates, top, left, header2offset, sub)

(***************************************************************************)
(* Raw records for the decoder: the byte layout read_roi parses            *)
(***************************************************************************)
u16(v) == <<v \div 256, v % 256>>

u32(v) == u16(v \div 65536) \o u16(v % 65536)

\* the 64-byte primary header, the unclaimed style fields zero
RawHeader(g) ==
    MAGIC \o u16(g.version) \o <<g.roi_type, 0>>
    \o u16(g.box[1]) \o u16(g.box[2]) \o u16(g.box[3]) \o u16(g.box[4])
    \o u16(g.n)
    \o u32(g.fl[1]) \o u32(g.fl[2]) \o u32(g.fl[3]) \o u32(g.fl[4])
    \o u16(0) \o u32(0) \o u32(0) \o u32(0)
    \o u16(g.subtype) \o u16(g.options)
    \o <<0, 0>> \o u16(0) \o u32(1)
    \o u32(64 + 12 * g.n)

\* the i-th 16-bit x and y offsets and the i-th float bit patterns of a seed
RawX(seed, i) == IF seed = 1 THEN 3 * i ELSE IF seed = 2 THEN 65536 - i ELSE 32760 + i
RawY(seed, i) == IF seed = 1 THEN i + 7 ELSE IF seed = 2 THEN 65530 + i ELSE 2 * i
RawFX(seed, i) == 1082130432 + 2097152 * (i + seed)     \* 0x40800000 + k * 2^21
RawFY(seed, i) == 1065353216 + 4194304 * (i + seed)     \* 0x3F800000 + k * 2^22

RECURSIVE Flat(_)
Flat(ss) == IF ss = <<>> THEN <<>> ELSE Head(ss) \o Flat(Tail(ss))

RawName == <<82, 8364>>     \* "R" and the euro sign

\* payload: 16-bit x block, 16-bit y block, float x block, float y block;
\* then header2 (name offset at +16, name length at +20) and the name
RawRecord(g) ==
    LET n == g.n
        h2 == 64 + 12 * n
    IN RawHeader(g)
       \o Flat([i \in 1..n |-> u16(RawX(g.seed, i))])
       \o Flat([i \in 1..n |-> u16(RawY(g.seed, i))])
       \o Flat([i \in 1..n |-> u32(RawFX(g.seed, i))])
       \o Flat([i \in 1..n |-> u32(RawFY(g.seed, i))])
       \o Zeros(NAME_OFFSET) \o u32(h2 + COUNTERS_OFFSET + 4) \o u32(Len(RawName))
       \o Zeros(28)
       \o Flat([i \in 1..Len(RawName) |-> u16(RawName[i])])

VersionVals == {221, 222}
OptionVals == {0, 127, 384}
SubtypeVals == {0, 1, 256}
TypeVals == (0..11) \cup {255}
FloatVals == {<<1082130432, 1084227584, 1077936128, 1073741824>>}  \* 4, 5, 3, 2

SmallBoxes ==
    {<<t, l, t + h, l + w>> : t \in 0..1, l \in 0..1, h \in 1..MaxBox, w \in 1..MaxBox}

\* top, left, bottom, right as stored (unsigned 16-bit patterns)
Boxes ==
    SmallBoxes \cup
    { <<0, 0, 16, 16>>,                  \* the 16x16 fixture
      <<5, 4, 10, 8>>,                   \* the rectangle fixture
      <<65533, 65531, 65535, 65534>>,    \* -3, -5, -1, -2
      <<65534, 2, 3, 7>>,                \* top = -2: straddles zero
      <<2, 3, 2, 6>>,                    \* height 0
      <<4, 6, 1, 2>>,                    \* inverted
      <<32767, 32768, 1, 65535>> }       \* the extreme values

PolyBoxes == { <<5, 4, 10, 8>>, <<65533, 65531, 65535, 65534>>, <<32767, 32768, 1, 65535>> }

Gen(version, roi_type, box, n, seed, subtype, options, fl, cut, magic) ==
    [version |-> version, roi_type |-> roi_type, box |-> box, n |-> n,
     seed |-> seed, subtype |-> subtype, options |-> options, fl |-> fl,
     cut |-> cut, magic |-> magic]

DecGens ==
    { Gen(v, t, b, n, s, st, o, fl, -1, TRUE) :
        v \in VersionVals, t \in TypeVals \ {RECT, OVAL}, b \in PolyBoxes,
        n \in 1..MaxN, s \in 1..3, st \in SubtypeVals, o \in OptionVals,
        fl \in {<<0, 0, 0, 0>>} }
    \cup
    { Gen(v, t, b, 0, 1, st, o, fl, -1, TRUE) :
        v \in VersionVals, t \in TypeVals \ {RECT, OVAL}, b \in PolyBoxes,
        st \in SubtypeVals, o \in OptionVals, fl \in {<<0, 0, 0, 0>>} }
    \cup
    { Gen(v, t, b, n, 1, st, o, fl, -1, TRUE) :
        v \in VersionVals, t \in {RECT, OVAL}, b \in Boxes, n \in {0, 1},
        st \in SubtypeVals, o \in OptionVals, fl \in FloatVals }
    \cup
    { Gen(v, t, <<5, 4, 10, 8>>, 1, 2, 0, o, <<0, 0, 0, 0>>, c, m) :
        v \in VersionVals, t \in {POLYGON, RECT, LINE}, o \in {0, 384},
        c \in {0, 3, 4, 40, 63, 64, 67, 70, 75, 93, 97, 127}, m \in BOOLEAN }

\* the bytes of a generated record: cut short, or with a wrong magic
GenBytes(g) ==
    LET full == RawRecord(g)
        cutb == IF g.cut < 0 THEN full ELSE SubSeq(full, 1, Min2(g.cut, Len(full)))
    IN IF g.magic \/ cutb = <<>> THEN cutb ELSE <<105>> \o Tail(cutb)

(***************************************************************************)
(* The decoder run: one call of read_roi on one stream                     *)
(***************************************************************************)
OtherIdle(vs) == UNCHANGED vs

InitDec ==
    /\ dgen \in DecGens
    /\ din = GenBytes(dgen)
    /\ dres = Pending
    /\ winp = "none" /\ wres = NotWritten /\ rres = Pending
    /\ zinp = "none" /\ zpc = "none" /\ zk = 0 /\ zf = <<>> /\ archive = <<>>
    /\ zerr = "" /\ zout = NotRead
    /\ calls = <<>> /\ counters = <<>> /\ arrays = <<>>

DecodeAct ==
    /\ dres.status = "pending"
    /\ dres' = read_roi(din)
    /\ UNCHANGED <<din, dgen, rtVars, zipVars, concVars>>

NextDec == DecodeAct

SpecDec == InitDec /\ [][NextDec]_vars

(***************************************************************************)
(* write_roi: write_bytes and the sequence of its calls                    *)
(***************************************************************************)
\* line 301-308: the signedness write_bytes uses; signed is "None" or "False"
DefaultSigned(n_bytes, signed) == signed = "None" /\ n_bytes = 2

\* int.to_bytes raises OverflowError unless the number fits the width
Fits(num, n_bytes, signed) ==
    IF DefaultSigned(n_bytes, signed)
    THEN -32768 <= num /\ num <= 32767
    ELSE /\ num >= 0
         /\ n_bytes = 1 => num < 256
         /\ n_bytes = 2 => num < 65536
         /\ n_bytes = 3 => num < 16777216

\* byte k (0 = least significant) of a non-negative number below 2^31
ByteAt(u, k) ==
    IF k = 0 THEN u % 256
    ELSE IF k = 1 THEN (u \div 256) % 256
    ELSE IF k = 2 THEN (u \div 65536) % 256
    ELSE IF k = 3 THEN (u \div 16777216) % 256
    ELSE 0

\* int(num).to_bytes(n_bytes, byteorder='big', signed=signed), when it fits
to_bytes(num, n_bytes, signed) ==
    LET u == IF num < 0 THEN num + 65536 ELSE num
    IN [i \in 1..n_bytes |-> ByteAt(u, n_bytes - i)]

Header2OffsetNoMagic(bytes_so_far, n_coordinates) ==
    bytes_so_far + 2 * n_coordinates * 2 + 4

\* line 389
Header2Offset(bytes_so_far, n_coordinates) ==
    bytes_so_far + 2 * n_coordinates * 2 + 8

NameMissingOrEmpty(name) == name.none \/ name.chars = <<>>

\* line 287: name is None
NameMissing(name) == name.none

WriteSupported == {POLYGON, OVAL}

RECURSIVE SeqMin(_, _), SeqMax(_, _)
SeqMin(s, c) ==
    IF Len(s) = 1 THEN s[1][c] ELSE Min2(s[1][c], SeqMin(Tail(s), c))
SeqMax(s, c) ==
    IF Len(s) = 1 THEN s[1][c] ELSE Max2(s[1][c], SeqMax(Tail(s), c))

\* in-place arithmetic of an array of the given dtype
Wrap(dtype, v) == IF dtype = "int16" THEN ToInt16(v) ELSE v

\* lines 319-330: the bounding box, the copy with top/left subtracted, and
\* n_coordinates; inp.points is non-empty
Prepare(inp) ==
    LET top == SeqMin(inp.points, 1)
        left == SeqMin(inp.points, 2)
        bottom == SeqMax(inp.points, 1)
        right == SeqMax(inp.points, 2)
        rel == [i \in 1..Len(inp.points) |->
                  <<Wrap(inp.dtype, inp.points[i][1] - top),
                    Wrap(inp.dtype, inp.points[i][2] - left)>>]
    IN [roi_type |-> inp.roi_type, top |-> top, left |-> left,
        bottom |-> bottom, right |-> right,
        n |-> IF inp.roi_type = POLYGON THEN Len(inp.points) ELSE 0,
        rel |-> IF inp.roi_type = POLYGON THEN rel ELSE <<>>,
        name |-> inp.name.chars]

Op(num, n_bytes, signed) == [num |-> num, n_bytes |-> n_bytes, signed |-> signed]

\* lines 354-384: the 22 header fields written before header2offset
HeaderOps(c) ==
    << Op(217, 2, "None"), Op(c.roi_type, 1, "None"), Op(0, 1, "None"),
       Op(c.top, 2, "None"), Op(c.left, 2, "None"),
       Op(c.bottom, 2, "None"), Op(c.right, 2, "None"),
       Op(c.n, 2, "None"),
       Op(0, 4, "None"), Op(0, 4, "None"), Op(0, 4, "None"), Op(0, 4, "None"),
       Op(0, 2, "None"), Op(0, 4, "None"), Op(0, 4, "None"), Op(0, 4, "None"),
       Op(0, 2, "None"),
       Op(0, 2, "None"), Op(0, 1, "None"), Op(0, 1, "None"), Op(0, 2, "None"),
       Op(1, 4, "None") >>

\* lines 390-414: header2offset, the coordinates (column 1, then column 0),
\* the zero fill, the name offset and length, the zero fill, the name
TailOps(c, header2offset) ==
    LET hardcoded_name_offset == header2offset + COUNTERS_OFFSET + 4
        curr_header2_byte == 24
        n_bytes_to_zero == hardcoded_name_offset - header2offset - curr_header2_byte
    IN << Op(header2offset, 4, "None") >>
       \o [i \in 1..c.n |-> Op(c.rel[i][2], 2, "None")]
       \o [i \in 1..c.n |-> Op(c.rel[i][1], 2, "None")]
       \o << Op(0, NAME_OFFSET, "None"),
             Op(hardcoded_name_offset, 4, "None"),
             Op(Len(c.name), 4, "None"),
             Op(0, n_bytes_to_zero, "None") >>
       \o [i \in 1..Len(c.name) |-> Op(c.name[i], 2, "False")]

NumOps(c) == 22 + 1 + 2 * c.n + 4 + Len(c.name)

\* the k-th call of write_bytes, header2offset as computed at line 389
WriteOp(c, k, header2offset) ==
    IF k <= 22 THEN HeaderOps(c)[k] ELSE TailOps(c, header2offset)[k - 22]

\* a call of write_roi in progress: pc is the number of the next write_bytes
\* call (0: the checks and the magic), out the stream, h2 the local
\* header2offset
Frame(pc, status, out, h2) == [pc |-> pc, status |-> status, out |-> out, h2 |-> h2]

\* lines 282-350: the checks, the bounding box, the counter reset, the magic
Prologue(inp) ==
    IF inp.roi_type \notin WriteSupported
    THEN Frame(0, "NotImplementedError:type", <<>>, 0)
    ELSE IF NameMissing(inp.name)
    THEN Frame(0, "NotImplementedError:name", <<>>, 0)
    ELSE IF inp.points = <<>>
    THEN Frame(0, "ValueError", <<>>, 0)
    ELSE Frame(1, "running", MAGIC, 0)

\* one call of write_bytes: fr the frame, ctr the value of
\* write_bytes.bytes_so_far it finds; gives the frame and the counter after
StepWrite(c, fr, ctr) ==
    LET h2 == IF fr.pc = 23 THEN Header2Offset(ctr, c.n) ELSE fr.h2
        op == WriteOp(c, fr.pc, h2)
    IN IF ~Fits(op.num, op.n_bytes, op.signed)
       THEN [fr |-> [fr EXCEPT !.status = "OverflowError", !.h2 = h2], ctr |-> ctr]
       ELSE [fr |-> Frame(fr.pc + 1,
                          IF fr.pc = NumOps(c) THEN "ok" ELSE "running",
                          fr.out \o to_bytes(op.num, op.n_bytes, op.signed), h2),
             ctr |-> ctr + op.n_bytes]

RECURSIVE RunWrite(_, _, _)
RunWrite(c, fr, ctr) ==
    IF fr.status # "running"
    THEN [status |-> fr.status, out |-> fr.out, bytes_so_far |-> ctr,
          header2offset |-> fr.h2]
    ELSE LET s == StepWrite(c, fr, ctr) IN RunWrite(c, s.fr, s.ctr)

\* write_roi(points, fileobj, name, roi_type) on an empty stream
write_roi(inp) ==
    LET fr == Prologue(inp)
    IN IF fr.status # "running"
       THEN [status |-> fr.status, out |-> fr.out, bytes_so_far |-> 0,
             header2offset |-> 0]
       ELSE RunWrite(Prepare(inp), fr, 0)

(***************************************************************************)
(* The round trip: write_roi on a fresh stream, then read_roi on its bytes *)
(***************************************************************************)
PointVals == { <<0, 0>>, <<3, 5>>, <<-2, 4>>, <<-32768, 7>>, <<32767, -1>> }
CharVals == { 65, 8364, 128512 }     \* "A", the euro sign, a non-BMP character

SeqsUpTo(S, n) == UNION { [1..k -> S] : k \in 0..n }

NameVals ==
    { [none |-> TRUE, chars |-> <<>>] }
    \cup { [none |-> FALSE, chars |-> cs] : cs \in SeqsUpTo(CharVals, MaxNameLen) }

WriteInputs ==
    [ points : SeqsUpTo(PointVals, MaxPts), dtype : {"int16", "int64"},
      name : NameVals, roi_type : {POLYGON, OVAL, RECT} ]

InitRT ==
    /\ winp \in WriteInputs
    /\ wres = NotWritten
    /\ rres = Pending
    /\ din = <<>> /\ dgen = "none" /\ dres = Pending
    /\ zinp = "none" /\ zpc = "none" /\ zk = 0 /\ zf = <<>> /\ archive = <<>>
    /\ zerr = "" /\ zout = NotRead
    /\ calls = <<>> /\ counters = <<>> /\ arrays = <<>>

WriteAct ==
    /\ wres.status = "pending"
    /\ wres' = write_roi(winp)
    /\ UNCHANGED <<winp, rres, decVars, zipVars, concVars>>

\* the polygon round trip (an oval record is decoded in the decoder run)
ReadBackAct ==
    /\ wres.status = "ok"
    /\ winp.roi_type = POLYGON
    /\ rres.status = "pending"
    /\ rres' = read_roi(wres.out)
    /\ UNCHANGED <<winp, wres, decVars, zipVars, concVars>>

NextRT == WriteAct \/ ReadBackAct

SpecRT == InitRT /\ [][NextRT]_vars

(***************************************************************************)
(* The archive: write_roi_zip, then read_roi_zip                           *)
(***************************************************************************)
DotRoi == <<46, 114, 111, 105>>      \* '.roi'

endswith(str, suffix) ==
    /\ Len(str) >= Len(suffix)
    /\ SubSeq(str, Len(str) - Len(suffix) + 1, Len(str)) = suffix

single_roi_fname_bare(name) == name

\* lines 432-435
single_roi_fname(name) ==
    IF endswith(name, DotRoi) THEN name ELSE name \o DotRoi

Entry(name, data) == [name |-> name, data |-> data]

\* ZipFile.namelist(): the entry names in listing order
namelist(arch) == [i \in 1..Len(arch) |-> arch[i].name]

zip_read_first(arch, n) ==
    arch[CHOOSE i \in 1..Len(arch) :
            arch[i].name = n /\ \A j \in 1..(i - 1) : arch[j].name # n].data

\* ZipFile.read(name): the name is looked up in NameToInfo, which holds the
\* entry listed last under that name
zip_read(arch, n) ==
    arch[CHOOSE i \in 1..Len(arch) :
            arch[i].name = n /\ \A j \in (i + 1)..Len(arch) : arch[j].name # n].data

ArchiveAfterFailureDirect(arch, fname, partial) ==
    Append(arch, Entry(fname, partial))

\* lines 436-440: write_roi raised while filling the buffer f, so writestr
\* is not reached and the archive is closed as it was
ArchiveAfterFailure(arch, fname, partial) == arch

\* line 276: one (n, read_roi(...)) per listed name; the first read_roi that
\* raises ends the call
read_roi_zip(arch) ==
    LET res == [i \in 1..Len(arch) |-> read_roi(zip_read(arch, namelist(arch)[i]))]
        bad == { i \in 1..Len(arch) : res[i].status # "ok" }
    IN IF bad = {}
       THEN [status |-> "ok",
             items |-> [i \in 1..Len(arch) |->
                          [name |-> arch[i].name, points |-> res[i].points]]]
       ELSE [status |-> res[CHOOSE i \in bad : \A j \in bad : i <= j].status,
             items |-> <<>>]

ZipA == <<97>>                              \* 'a'
ZipARoi == <<97, 46, 114, 111, 105>>        \* 'a.roi'
ZipB == <<98>>                              \* 'b'

ZipP1 == << <<0, 0>>, <<3, 5>> >>
ZipP2 == << <<-2, 4>>, <<3, 5>>, <<0, 0>> >>
ZipP3 == << <<-32768, 7>>, <<32767, -1>> >>  \* row extent 65535

ZipPair(none, chars, points) ==
    [name |-> [none |-> none, chars |-> chars], points |-> points]

ZipPairs ==
    { ZipPair(FALSE, ZipA, ZipP1), ZipPair(FALSE, ZipA, ZipP2),
      ZipPair(FALSE, ZipARoi, ZipP2), ZipPair(FALSE, ZipB, ZipP1),
      ZipPair(FALSE, ZipB, ZipP3), ZipPair(FALSE, <<>>, ZipP2),
      ZipPair(TRUE, <<>>, ZipP1) }

ZipInputs == [ pairs : SeqsUpTo(ZipPairs, MaxEntries), roi_type : {POLYGON, OVAL, RECT} ]

\* the arguments of the write_roi call for the k-th pair (default int dtype)
ZipCall(inp, k) ==
    [points |-> inp.pairs[k].points, dtype |-> "int64",
     name |-> inp.pairs[k].name, roi_type |-> inp.roi_type]

InitZip ==
    /\ zinp \in ZipInputs
    /\ zpc = "encode" /\ zk = 1 /\ zf = <<>> /\ archive = <<>>
    /\ zerr = "" /\ zout = NotRead
    /\ din = <<>> /\ dgen = "none" /\ dres = Pending
    /\ winp = "none" /\ wres = NotWritten /\ rres = Pending
    /\ calls = <<>> /\ counters = <<>> /\ arrays = <<>>

\* lines 431-438 for one pair: the entry name, the buffer, write_roi
ZipEncodeAct ==
    /\ zpc = "encode" /\ zk <= Len(zinp.pairs)
    /\ IF zinp.pairs[zk].name.none
       THEN \* None has no endswith
            /\ zerr' = "AttributeError" /\ zpc' = "closed"
            /\ UNCHANGED <<zf, archive>>
       ELSE LET fname == single_roi_fname(zinp.pairs[zk].name.chars)
                w == write_roi(ZipCall(zinp, zk))
            IN /\ zf' = w.out
               /\ IF w.status = "ok"
                  THEN /\ zpc' = "commit"
                       /\ UNCHANGED <<zerr, archive>>
                  ELSE /\ zerr' = w.status /\ zpc' = "closed"
                       /\ archive' = ArchiveAfterFailure(archive, fname, w.out)
    /\ UNCHANGED <<zinp, zk, zout, decVars, rtVars, concVars>>

\* lines 440-441: writestr of the whole buffer, close of the buffer
ZipCommitAct ==
    /\ zpc = "commit"
    /\ archive' = Append(archive,
                         Entry(single_roi_fname(zinp.pairs[zk].name.chars), zf))
    /\ zf' = <<>>
    /\ zk' = zk + 1
    /\ zpc' = "encode"
    /\ UNCHANGED <<zinp, zerr, zout, decVars, rtVars, concVars>>

\* the loop is over: the with block closes the archive
ZipCloseAct ==
    /\ zpc = "encode" /\ zk > Len(zinp.pairs)
    /\ zpc' = "closed"
    /\ UNCHANGED <<zinp, zk, zf, archive, zerr, zout, decVars, rtVars, concVars>>

\* read_roi_zip on the file write_roi_zip left
ZipReadAct ==
    /\ zpc = "closed"
    /\ zout' = read_roi_zip(archive)
    /\ zpc' = "read"
    /\ UNCHANGED <<zinp, zk, zf, archive, zerr, decVars, rtVars, concVars>>

NextZip == ZipEncodeAct \/ ZipCommitAct \/ ZipCloseAct \/ ZipReadAct

SpecZip == InitZip /\ [][NextZip]_vars

(***************************************************************************)
(* Two write_roi calls on distinct streams, interleaved write by write     *)
(***************************************************************************)
Calls == {1, 2}

WriteBytesObjectShared(c) == 1

\* line 300: def write_bytes creates a function object in every call of
\* write_roi; bytes_so_far is an attribute of that object
WriteBytesObject(c) == c

CallerArrayInPlace(inp) == Prepare(inp).rel

\* lines 321-325: the subtraction is done on points.copy(); the Oval path
\* does not touch points
CallerArrayAfter(inp) == inp.points

ConcInputs ==
    { [points |-> << <<0, 0>>, <<3, 5>> >>, dtype |-> "int64",
       name |-> [none |-> FALSE, chars |-> <<65>>], roi_type |-> POLYGON],
      [points |-> << <<-2, 4>>, <<3, 5>>, <<1, 9>> >>, dtype |-> "int16",
       name |-> [none |-> FALSE, chars |-> <<>>], roi_type |-> POLYGON],
      [points |-> << <<7, 4>>, <<3, 5>> >>, dtype |-> "int64",
       name |-> [none |-> FALSE, chars |-> <<65, 8364>>], roi_type |-> OVAL],
      [points |-> << <<-32768, 7>>, <<32767, -1>> >>, dtype |-> "int64",
       name |-> [none |-> FALSE, chars |-> <<65>>], roi_type |-> POLYGON],
      [points |-> << <<1, 1>> >>, dtype |-> "int64",
       name |-> [none |-> TRUE, chars |-> <<>>], roi_type |-> POLYGON] }

InitConc ==
    /\ calls \in [Calls -> { [inp |-> i, fr |-> Frame(0, "new", <<>>, 0)] : i \in ConcInputs }]
    /\ counters = [c \in Calls |-> 0]
    /\ arrays = [c \in Calls |-> calls[c].inp.points]
    /\ din = <<>> /\ dgen = "none" /\ dres = Pending
    /\ winp = "none" /\ wres = NotWritten /\ rres = Pending
    /\ zinp = "none" /\ zpc = "none" /\ zk = 0 /\ zf = <<>> /\ archive = <<>>
    /\ zerr = "" /\ zout = NotRead

\* lines 282-350 of call c
ConcPrologueAct(c) ==
    /\ calls[c].fr.status = "new"
    /\ LET fr == Prologue(calls[c].inp)
       IN /\ calls' = [calls EXCEPT ![c].fr = fr]
          /\ IF fr.status = "running"
             THEN /\ counters' = [counters EXCEPT ![WriteBytesObject(c)] = 0]
                  /\ arrays' = [arrays EXCEPT ![c] = CallerArrayAfter(calls[c].inp)]
             ELSE UNCHANGED <<counters, arrays>>
    /\ UNCHANGED <<decVars, rtVars, zipVars>>

\* one write_bytes call of call c
ConcWriteAct(c) ==
    /\ calls[c].fr.status = "running"
    /\ LET s == StepWrite(Prepare(calls[c].inp), calls[c].fr,
                          counters[WriteBytesObject(c)])
       IN /\ calls' = [calls EXCEPT ![c].fr = s.fr]
          /\ counters' = [counters EXCEPT ![WriteBytesObject(c)] = s.ctr]
    /\ UNCHANGED <<arrays, decVars, rtVars, zipVars>>

NextConc == \E c \in Calls : ConcPrologueAct(c) \/ ConcWriteAct(c)

SpecConc == InitConc /\ [][NextConc]_vars

(***************************************************************************)
(* Properties of the decoder run (SpecDec)                                 *)
(***************************************************************************)
\* a stored 16-bit pattern read as a two's complement number
Signed16(v) == IF v >= 32768 THEN v - 65536 ELSE v

\* the record starts with the magic and holds the whole 64-byte header
FullHeader(g) == g.magic /\ (g.cut < 0 \/ g.cut >= 64)

\* the record is whole
FullRecord(g) == g.magic /\ g.cut < 0

\* the sub-pixel condition as the specification words it
GateOpen(g) == (g.options \div 128) % 2 = 1 /\ g.version >= 222

Decoded == dres.status # "pending"

NothingRead(r) ==
    r.pos = 64 /\ r.nseek = 0 /\ r.ncoord = 0 /\ r.points = <<>> /\ r.name = <<>>

\* C4: an input with the magic and a full 64-byte header is rejected with the
\* unsupported-shape error when its shape kind is outside {Freehand, Traced,
\* Polygon, Rect, Point, Oval}, and is rejected when subtype # 0 whatever the
\* shape kind; in both cases exactly the 64 header bytes were consumed, no
\* coordinate was read, no seek was made and no points are returned.
C4_DecoderRejection ==
    (Decoded /\ FullHeader(dgen)) =>
        /\ dgen.roi_type \notin {FREEHAND, TRACED, POLYGON, RECT, POINT, OVAL}
              => (dres.status = "NotImplementedError:type" /\ NothingRead(dres))
        /\ dgen.subtype # 0
              => (/\ dres.status \in {"NotImplementedError:type",
                                      "NotImplementedError:subtype"}
                  /\ NothingRead(dres))
        /\ (dgen.roi_type \in {FREEHAND, TRACED, POLYGON, RECT, POINT, OVAL}
            /\ dgen.subtype = 0)
              => dres.status \notin {"NotImplementedError:type",
                                     "NotImplementedError:subtype"}

C4_Witness ==
    /\ dres.status = "NotImplementedError:type"
    /\ dgen.roi_type = LINE /\ dgen.n = 2 /\ dgen.cut < 0 /\ dgen.subtype = 0

C4_WitnessSubtype ==
    /\ dres.status = "NotImplementedError:subtype"
    /\ dgen.roi_type = OVAL /\ dgen.subtype = 256

\* C5: sub_pixel is true iff bit 128 of options is set and version >= 222
\* (seen in the float32 result, or the sub-pixel oval rejection); a
\* Polygon/Freehand/Traced/Point record with the bit set and version < 222
\* is decoded on the integer path: no 4n block is skipped (three seeks, all
\* for the name), 2n 16-bit coordinates are read, x block then y block, and
\* left is added to every x, top to every y (int16 arithmetic).
C5_SubPixelGate ==
    (Decoded /\ FullRecord(dgen) /\ dgen.subtype = 0) =>
        /\ dgen.roi_type \in {POLYGON, FREEHAND, TRACED, POINT} =>
             /\ dres.status = "ok"
             /\ (dres.dtype = "float32") <=> GateOpen(dgen)
             /\ (dres.nseek = 4) <=> GateOpen(dgen)
             /\ Len(dres.points) = dgen.n
             /\ GateOpen(dgen) =>
                  \A i \in 1..dgen.n :
                     dres.points[i] = << <<"f32", RawFY(dgen.seed, i)>>,
                                         <<"f32", RawFX(dgen.seed, i)>> >>
             /\ ~GateOpen(dgen) =>
                  /\ dres.dtype = "int16"
                  /\ dres.nseek = 3
                  /\ dres.ncoord = 2 * dgen.n
                  /\ \A i \in 1..dgen.n :
                       dres.points[i] =
                         << Signed16((RawY(dgen.seed, i) + dgen.box[1]) % 65536),
                            Signed16((RawX(dgen.seed, i) + dgen.box[2]) % 65536) >>
        /\ dgen.roi_type = RECT =>
             ((dres.dtype = "float32") <=> GateOpen(dgen))
        /\ dgen.roi_type = OVAL =>
             ((dres.status = "NotImplementedError:subpixel-oval") <=> GateOpen(dgen))

C5_Witness ==
    /\ dres.status = "ok" /\ dres.dtype = "int16"
    /\ dgen.roi_type = POLYGON /\ dgen.options = 384 /\ dgen.version = 221
    /\ dgen.n = 2 /\ dgen.seed = 1 /\ dgen.box = <<5, 4, 10, 8>>
    /\ dres.points = << <<13, 7>>, <<14, 10>> >>

C5_WitnessFloat ==
    /\ dres.status = "ok" /\ dres.dtype = "float32"
    /\ dgen.roi_type = POLYGON /\ dgen.options = 384 /\ dgen.version = 222
    /\ dgen.n = 2

\* C6: a non-sub-pixel Rect record with subtype 0 decodes to exactly
\* [(top,left), (top,right), (bottom,right), (bottom,left)], the four fields
\* taken as signed 16-bit values, having consumed the 64 header bytes only.
C6_IntegerRect ==
    (Decoded /\ FullHeader(dgen) /\ dgen.roi_type = RECT /\ dgen.subtype = 0
     /\ ~GateOpen(dgen)) =>
        LET top == Signed16(dgen.box[1])
            left == Signed16(dgen.box[2])
            bottom == Signed16(dgen.box[3])
            right == Signed16(dgen.box[4])
        IN /\ dres.status = "ok"
           /\ dres.dtype = "int16"
           /\ dres.points = << <<top, left>>, <<top, right>>,
                               <<bottom, right>>, <<bottom, left>> >>
           /\ dres.pos = 64 /\ dres.nseek = 0 /\ dres.ncoord = 0
           /\ dres.name = <<>>

C6_Witness ==
    /\ dres.status = "ok" /\ dgen.roi_type = RECT
    /\ dgen.box = <<65533, 65531, 65535, 65534>>
    /\ dres.points = << <<-3, -5>>, <<-3, -2>>, <<-1, -2>>, <<-1, -5>> >>
    /\ dgen.options = 384 /\ dgen.version = 221

C6_WitnessHeaderOnly ==
    /\ dres.status = "ok" /\ dgen.roi_type = RECT /\ dgen.cut = 64
    /\ Len(din) = 64

\* the points of a sequence as a set; sums over a sequence of points
PointSet(ps) == { ps[i] : i \in 1..Len(ps) }

RECURSIVE SumRange(_, _, _, _)
SumRange(ps, c, lo, hi) ==
    IF lo > hi THEN 0
    ELSE IF lo = hi THEN ps[lo][c]
    ELSE LET mid == (lo + hi) \div 2
         IN SumRange(ps, c, lo, mid) + SumRange(ps, c, mid + 1, hi)

SumCol(ps, c) == SumRange(ps, c, 1, Len(ps))

\* the returned pixels are symmetric through the centre of the box
\* (top, left, bottom, right), and their centres (r + 0.5, c + 0.5) have
\* the box centre as centroid
OvalCentred(ps, top, left, bottom, right) ==
    /\ ps # <<>>
    /\ \A p \in PointSet(ps) :
          <<top + bottom - 1 - p[1], left + right - 1 - p[2]>> \in PointSet(ps)
    /\ 2 * SumCol(ps, 1) + Len(ps) = Len(ps) * (top + bottom)
    /\ 2 * SumCol(ps, 2) + Len(ps) = Len(ps) * (left + right)

\* C7: for a non-sub-pixel Oval record with left < right and top < bottom
\* (signed 16-bit fields) the returned point set is symmetric through the
\* box centre taken on pixel centres and its centroid is the box centre; the
\* 16x16 box gives centroid (8, 8), 16 distinct rows and 16 distinct columns.
C7_OvalCentred ==
    (Decoded /\ FullHeader(dgen) /\ dgen.roi_type = OVAL /\ dgen.subtype = 0
     /\ ~GateOpen(dgen)
     /\ Signed16(dgen.box[2]) < Signed16(dgen.box[4])
     /\ Signed16(dgen.box[1]) < Signed16(dgen.box[3])) =>
        /\ dres.status = "ok"
        /\ OvalCentred(dres.points, Signed16(dgen.box[1]), Signed16(dgen.box[2]),
                       Signed16(dgen.box[3]), Signed16(dgen.box[4]))
        /\ dgen.box = <<0, 0, 16, 16>> =>
             /\ { p[1] : p \in PointSet(dres.points) } = 0..15
             /\ { p[2] : p \in PointSet(dres.points) } = 0..15

\* the same statement, the four fields taken as read_roi reads them (unsigned)
C7_OvalCentredAsRead ==
    (Decoded /\ FullHeader(dgen) /\ dgen.roi_type = OVAL /\ dgen.subtype = 0
     /\ ~GateOpen(dgen)
     /\ dgen.box[2] < dgen.box[4] /\ dgen.box[1] < dgen.box[3]) =>
        /\ dres.status = "ok"
        /\ OvalCentred(dres.points, dgen.box[1], dgen.box[2],
                       dgen.box[3], dgen.box[4])

\* what does hold: the statement of C7 for boxes that do not contain the
\* coordinate 0 strictly between their sides, i.e. whose fields have one sign
C7_OvalCentredOneSign ==
    (Decoded /\ FullHeader(dgen) /\ dgen.roi_type = OVAL /\ dgen.subtype = 0
     /\ ~GateOpen(dgen)
     /\ Signed16(dgen.box[2]) < Signed16(dgen.box[4])
     /\ Signed16(dgen.box[1]) < Signed16(dgen.box[3])
     /\ (dgen.box[2] < 32768 <=> dgen.box[4] < 32768)
     /\ (dgen.box[1] < 32768 <=> dgen.box[3] < 32768)) =>
        /\ dres.status = "ok"
        /\ OvalCentred(dres.points, Signed16(dgen.box[1]), Signed16(dgen.box[2]),
                       Signed16(dgen.box[3]), Signed16(dgen.box[4]))
        /\ dgen.box = <<0, 0, 16, 16>> =>
             /\ { p[1] : p \in PointSet(dres.points) } = 0..15
             /\ { p[2] : p \in PointSet(dres.points) } = 0..15

C7_Witness16 ==
    /\ dres.status = "ok" /\ dgen.roi_type = OVAL
    /\ dgen.box = <<0, 0, 16, 16>> /\ Len(dres.points) > 16

(***************************************************************************)
(* Properties of the round trip (SpecRT)                                   *)
(***************************************************************************)
Written == wres.status # "pending"

\* a name of characters of the basic multilingual plane (one u16 each)
BmpName(name) == ~name.none /\ \A i \in 1..Len(name.chars) : name.chars[i] < 65536

\* C1: for every non-empty polygon P of points with signed 16-bit
\* coordinates and every non-empty name N, write_roi(P, buf, N, POLYGON)
\* followed by read_roi gives points equal to P, in order, row in column 0
\* and col in column 1, and the name N.
C1_PolygonRoundTrip ==
    (Written /\ winp.roi_type = POLYGON /\ winp.points # <<>>
     /\ BmpName(winp.name) /\ winp.name.chars # <<>>) =>
        /\ wres.status = "ok"
        /\ rres.status # "pending" =>
             /\ rres.status = "ok"
             /\ rres.points = winp.points
             /\ rres.name = winp.name.chars

\* what does hold: the round trip of every polygon that write_roi encodes
C1_RoundTripWhenEncoded ==
    (wres.status = "ok" /\ winp.roi_type = POLYGON /\ rres.status # "pending") =>
        /\ rres.status = "ok"
        /\ rres.dtype = "int16"
        /\ rres.points = winp.points
        /\ rres.name = winp.name.chars
        /\ rres.pos = Len(wres.out)

C1_WitnessNegative ==
    /\ rres.status = "ok"
    /\ winp.points = << <<-2, 4>>, <<3, 5>> >> /\ winp.dtype = "int64"
    /\ winp.name.chars = <<65, 8364>>
    /\ rres.points = winp.points

\* C3 as claimed: with a supported shape kind (and points to encode), a name
\* that is None or the empty string makes write_roi fail with the
\* missing-name error before any byte is written.
C3_NameNoneOrEmptyRejected ==
    (Written /\ winp.roi_type \in {POLYGON, OVAL} /\ winp.points # <<>>
     /\ (winp.name.none \/ winp.name.chars = <<>>)) =>
        (wres.status = "NotImplementedError:name" /\ wres.out = <<>>)

\* C3 as amended: with a supported shape kind, a name that is None makes
\* write_roi fail with the missing-name error before any byte is written;
\* the empty string is not treated as missing: the magic is written, and a
\* record that encodes carries name length 0 and ends with header2.
C3_NameNoneRejected ==
    (Written /\ winp.roi_type \in {POLYGON, OVAL}) =>
        /\ winp.name.none =>
             (wres.status = "NotImplementedError:name" /\ wres.out = <<>>)
        /\ (~winp.name.none /\ winp.name.chars = <<>> /\ winp.points # <<>>) =>
             /\ wres.status \in {"ok", "OverflowError"}
             /\ SubSeq(wres.out, 1, 4) = MAGIC
             /\ wres.status = "ok" =>
                  /\ get32(wres.out, get32(wres.out, 60) + 20) = 0
                  /\ Len(wres.out) = get32(wres.out, 60) + 52

C3_Witness ==
    /\ wres.status = "NotImplementedError:name" /\ wres.out = <<>>
    /\ winp.name.none /\ winp.roi_type = POLYGON /\ Len(winp.points) = 2

C3_WitnessEmptyAccepted ==
    /\ wres.status = "ok" /\ ~winp.name.none /\ winp.name.chars = <<>>
    /\ winp.roi_type = POLYGON /\ rres.status = "ok" /\ rres.name = <<>>

\* C8: after a successful write_roi (Polygon with n points, or Oval with
\* n = 0; name of length L) the u32 at bytes 60..63 is 64 + 4n, the offset
\* at which the block after the coordinate payload starts, while the counter
\* ends at the length less the 4 magic bytes; the u32 at header2_offset+16
\* is header2_offset + 52, where the name's first code unit is; the u32 at
\* header2_offset+20 is L; the stream is header2_offset + 52 + 2L bytes long;
\* and read_roi's three seeks find the name the encoder wrote.
C8_OffsetBookkeeping ==
    wres.status = "ok" =>
        LET out == wres.out
            n == IF winp.roi_type = POLYGON THEN Len(winp.points) ELSE 0
            L == Len(winp.name.chars)
            h2 == get32(out, 60)
            top == SeqMin(winp.points, 1)
            left == SeqMin(winp.points, 2)
        IN /\ h2 = 64 + 4 * n
           /\ wres.header2offset = h2
           /\ get16(out, 16) = n
           /\ wres.bytes_so_far = Len(out) - 4
           /\ \A i \in 1..n :
                /\ get16(out, 64 + 2 * (i - 1)) = (winp.points[i][2] - left) % 65536
                /\ get16(out, 64 + 2 * n + 2 * (i - 1))
                     = (winp.points[i][1] - top) % 65536
           /\ SubSeq(out, h2 + 1, h2 + 16) = Zeros(16)
           /\ get32(out, h2 + 16) = h2 + 52
           /\ get32(out, h2 + 20) = L
           /\ Len(out) = h2 + 52 + 2 * L
           /\ \A i \in 1..L : get16(out, h2 + 52 + 2 * (i - 1)) = winp.name.chars[i]
           /\ rres.status # "pending" =>
                (rres.status = "ok" /\ rres.nseek = 3
                 /\ rres.name = winp.name.chars /\ rres.pos = Len(out))

C8_Witness ==
    /\ wres.status = "ok" /\ rres.status = "ok"
    /\ winp.roi_type = POLYGON /\ Len(winp.points) = 2
    /\ Len(winp.name.chars) = 2
    /\ get32(wres.out, 60) = 72 /\ Len(wres.out) = 128

C8_WitnessOval ==
    /\ wres.status = "ok" /\ winp.roi_type = OVAL /\ Len(winp.points) = 2
    /\ get32(wres.out, 60) = 64

(***************************************************************************)
(* Properties of the archive (SpecZip)                                     *)
(***************************************************************************)
NPairs == Len(zinp.pairs)

\* the entry name the archive format asks for: '.roi' appended if missing
WithDotRoi(chars) ==
    IF Len(chars) >= 4 /\ SubSeq(chars, Len(chars) - 3, Len(chars)) = <<46, 114, 111, 105>>
    THEN chars ELSE chars \o <<46, 114, 111, 105>>

\* the last pair stored under the entry name of pair i
LastSameEntry(i) ==
    CHOOSE j \in i..NPairs :
        /\ WithDotRoi(zinp.pairs[j].name.chars) = WithDotRoi(zinp.pairs[i].name.chars)
        /\ \A k \in (j + 1)..NPairs :
              WithDotRoi(zinp.pairs[k].name.chars) # WithDotRoi(zinp.pairs[i].name.chars)

ZipRoundTripDone == zpc = "read" /\ zerr = "" /\ zinp.roi_type = POLYGON

C2_WitnessDistinct ==
    /\ ZipRoundTripDone /\ NPairs = 2
    /\ zinp.pairs[1].name.chars = <<97>> /\ zinp.pairs[2].name.chars = <<98>>
    /\ zinp.pairs[1].points # zinp.pairs[2].points
    /\ zout.items[1].points = zinp.pairs[1].points
    /\ zout.items[2].points = zinp.pairs[2].points

\* the outcome of encoding each pair on its own; encoding a pair fails when
\* its name is None or write_roi raises
Encoded == [k \in 1..NPairs |-> write_roi(ZipCall(zinp, k))]

EncodeFails(enc, k) == zinp.pairs[k].name.none \/ enc[k].status # "ok"

\* the bytes of one whole record: magic, header, payload, header2, name
WholeRecord(data, n, L) ==
    /\ Len(data) = 64 + 4 * n + 52 + 2 * L
    /\ SubSeq(data, 1, 4) = MAGIC
    /\ get32(data, 60) = 64 + 4 * n
    /\ get32(data, 64 + 4 * n + 20) = L

\* C9: at every moment of write_roi_zip each entry of the archive holds the
\* complete bytes of one successfully encoded record, the i-th entry that of
\* the i-th pair; if encoding the k-th pair fails, no entry for it or for a
\* later pair is added, the archive keeps exactly the k-1 earlier entries in
\* input order, and the error reaches the caller.
C9_WholeEntriesOnly ==
    LET enc == Encoded
        failing == { k \in 1..NPairs : EncodeFails(enc, k) }
    IN /\ Len(archive) <= NPairs
       /\ \A i \in 1..Len(archive) :
             /\ i \notin failing
             /\ archive[i].name = WithDotRoi(zinp.pairs[i].name.chars)
             /\ archive[i].data = enc[i].out
             /\ WholeRecord(archive[i].data,
                            IF zinp.roi_type = POLYGON
                            THEN Len(zinp.pairs[i].points) ELSE 0,
                            Len(zinp.pairs[i].name.chars))
       /\ \A k \in failing :
             (\A j \in failing : k <= j) =>
                 /\ Len(archive) <= k - 1
                 /\ zpc \in {"closed", "read"} =>
                       (zerr # "" /\ zk = k /\ Len(archive) = k - 1)
       /\ (zpc \in {"closed", "read"} /\ failing = {}) =>
             (zerr = "" /\ Len(archive) = NPairs)

C9_Witness ==
    /\ zpc = "closed" /\ zerr = "OverflowError" /\ zk = 2
    /\ Len(archive) = 1 /\ Len(zf) > 64 /\ NPairs = 2

(***************************************************************************)
(* Properties of the interleaved calls (SpecConc)                          *)
(***************************************************************************)
Finished(c) == calls[c].fr.status \notin {"new", "running"}

IsPrefix(a, b) == Len(a) <= Len(b) /\ SubSeq(b, 1, Len(a)) = a

\* C10: two write_roi calls on distinct streams, interleaved write by write,
\* share nothing: each ends with the status, the header2_offset and the
\* bytes it has when run alone (and its stream is a prefix of those bytes
\* all along), its counter having counted its own writes only; and the
\* caller's points array is never changed.
C10_CallsIndependent ==
    \A c \in Calls :
        LET alone == write_roi(calls[c].inp)
        IN /\ arrays[c] = calls[c].inp.points
           /\ IsPrefix(calls[c].fr.out, alone.out)
           /\ calls[c].fr.status = "running" =>
                 (counters[c] = Len(calls[c].fr.out) - 4)
           /\ Finished(c) =>
                 /\ calls[c].fr.status = alone.status
                 /\ calls[c].fr.out = alone.out
                 /\ calls[c].fr.h2 = alone.header2offset
                 /\ alone.status = "ok" =>
                       (/\ counters[c] = Len(alone.out) - 4
                        /\ get32(calls[c].fr.out, 60) = Len(alone.out) - 52
                              - 2 * Len(calls[c].inp.name.chars))

C10_Witness ==
    /\ calls[1].fr.status = "running" /\ calls[1].fr.pc = 23
    /\ calls[2].fr.status = "running" /\ calls[2].fr.pc = 12
    /\ calls[1].inp.roi_type = POLYGON /\ Len(calls[1].inp.points) = 3
    /\ calls[2].inp.roi_type = POLYGON /\ Len(calls[2].inp.points) = 2

C10_WitnessBothDone ==
    /\ calls[1].fr.status = "ok" /\ calls[2].fr.status = "ok"
    /\ calls[1].fr.h2 = 76 /\ calls[2].fr.h2 = 64

====
